---- MODULE Spec2Model ----
(***************************************************************************)
(* Lytigas/lfq: a bounded lock-free broadcast ring (src/src/lib.rs).       *)
(*                                                                         *)
(* Cell        one slot: payload `data` and the packed atomic `epoch`      *)
(* Queue       the ring: `data` (the slots), `write_ptr`, `idx_mask`       *)
(* QueueClient a cursor: shared Queue and its own `to_read`                *)
(*                                                                         *)
(* Every atomic access of the source is one step of the model, so that all *)
(* interleavings of producers and readers are explored.  The machine word  *)
(* is the 16 bit usize of the source's target_pointer_width = "16" build.  *)
(***************************************************************************)
EXTENDS Integers, Sequences, FiniteSets, TLC

\* ------------------------------------------------------------------ bounds
MaxSize == 4          \* Queue::new is called with a size in 1..MaxSize
MaxPushes == 5        \* pushes started over the life of the ring
MaxRingSize == 2      \* the same two bounds where readers run against producers
MaxRingPushes == 3
MaxLapPushes == 7     \* pushes enough to overrun a cursor twice during one next()
MaxAsked == 40        \* every size up to this one is asked of Queue::new
NumClients == 2       \* QueueClient handles (threads that read)
NumProducers == 2     \* threads that only push

\* ------------------------------------------------------- the machine word
WordBits == 16
WordMod == 2 ^ WordBits
SENTINEL_MASK == 2 ^ (WordBits - 1)

Wrap(x) == x % WordMod

RECURSIVE BitOr(_, _)
BitOr(a, b) ==
    IF a = 0 THEN b
    ELSE IF b = 0 THEN a
    ELSE (IF a % 2 = 1 \/ b % 2 = 1 THEN 1 ELSE 0) + 2 * BitOr(a \div 2, b \div 2)

RECURSIVE BitAnd(_, _)
BitAnd(a, b) ==
    IF a = 0 \/ b = 0 THEN 0
    ELSE (IF a % 2 = 1 /\ b % 2 = 1 THEN 1 ELSE 0) + 2 * BitAnd(a \div 2, b \div 2)

BitNot(a) == (WordMod - 1) - a

Shr(u, k) == u \div (2 ^ k)

\* the step `u -= 1` is left out
round_up_to_power_of_two_NoDecrement(n) ==
    LET u0 == Wrap(n)
        u1 == BitOr(u0, Shr(u0, 1))
        u2 == BitOr(u1, Shr(u1, 2))
        u3 == BitOr(u2, Shr(u2, 4))
        u4 == BitOr(u3, Shr(u3, 8))
    IN  Wrap(u4 + 1)

\* lib.rs:285-304 for target_pointer_width = "16"
round_up_to_power_of_two(n) ==
    LET u0 == Wrap(n - 1)
        u1 == BitOr(u0, Shr(u0, 1))
        u2 == BitOr(u1, Shr(u1, 2))
        u3 == BitOr(u2, Shr(u2, 4))
        u4 == BitOr(u3, Shr(u3, 8))
    IN  Wrap(u4 + 1)

\* T::default() of the payload type
Default == 0
\* what a load of the payload may yield while it races with a store
Torn == -1

Clients == 1 .. NumClients
Producers == (NumClients + 1) .. (NumClients + NumProducers)
Threads == Clients \cup Producers

VARIABLES
    asked,       \* the size that Queue::new / new_queue was called with
    size,        \* Queue::size(): idx_mask + 1
    write_ptr,   \* Queue.write_ptr
    data,        \* Queue.data: slot index -> [data, epoch]
    prod,        \* per thread: its push in progress (locals of push / Cell::write)
    client,      \* per QueueClient: to_read and the call in progress (its locals)
    log,         \* history: the reservations won, in the order of the CAS
    published,   \* history: the sequences whose push has returned
    hist         \* history: per QueueClient, what it returned and what it saw

vars == <<asked, size, write_ptr, data, prod, client, log, published, hist>>

\* ---------------------------------------------------------- Queue helpers
idx_mask == size - 1
epoch(idx) == BitAnd(idx, BitNot(idx_mask))
modu(idx) == BitAnd(idx, idx_mask)
next_write_ptr == write_ptr

WriteInProgress(e) == BitAnd(e, SENTINEL_MASK) > 0
Unmasked(e) == BitAnd(e, BitNot(SENTINEL_MASK))

\* ------------------------------------------------------------ initial state
\* a QueueClient; `live` is false for a handle that no clone() has created yet
NewClient(isLive, tr) ==
    [live |-> isLive, to_read |-> tr,
     op |-> "none", pc |-> "idle", idx |-> 0, margin |-> 0, rr |-> Default]

NoRet == [op |-> "none", arg |-> 0, kind |-> "none", val |-> Default, at |-> 0]

\* the history of two consecutive latest() calls: whether there was a call
\* before the latest one and what it returned (has, v1), and what the producers
\* have done since that call started (prev) and since the latest call started
\* (cur): 0 nothing to a slot, 1 a claim or a publish, 2 a push was called
NoPair == [has |-> FALSE, v1 |-> Default, prev |-> 2, cur |-> 2]

\* the history of a handle: since it was created or reset (start, out, lagged),
\* of its latest call (ret; to_read0, wp0, done0, first at the call; lat), and
\* of the catch_up that set its to_read, if one did: the write_ptr that it
\* loaded and its margin (cw, cm; 0 when to_read was not set by a catch_up)
NewHist(tr) ==
    [start |-> tr, out |-> <<>>, lagged |-> FALSE,
     ret |-> NoRet, to_read0 |-> tr, wp0 |-> 0, done0 |-> 0, first |-> -1,
     lat |-> NoPair, cw |-> 0, cm |-> 0]

IdleProd == [pc |-> "idle", old |-> 0, dat |-> Default, x |-> -1]

\* lib.rs:77-90  what Queue::new(n) builds
Queue_new(n) ==
    LET sz == round_up_to_power_of_two(n)
    IN  [size |-> sz,
         data |-> [i \in 0 .. (sz - 1) |-> [data |-> Default, epoch |-> 0]],
         write_ptr |-> sz]

\* lib.rs:205-209  the first QueueClient: to_read = q.size()
FirstClient(q) ==
    [c \in Clients |-> IF c = 1 THEN NewClient(TRUE, q.size) ELSE NewClient(FALSE, 0)]

\* Queue::new(n) followed by QueueClient::new_queue's to_read = q.size()
new_queue(n) ==
    /\ n > 0
    /\ size = Queue_new(n).size
    /\ data = Queue_new(n).data
    /\ write_ptr = Queue_new(n).write_ptr
    /\ client = FirstClient(Queue_new(n))

InitUpTo(maxn) ==
    /\ \E n \in 1 .. maxn : asked = n /\ new_queue(n)
    /\ prod = [t \in Threads |-> IdleProd]
    /\ log = <<>>
    /\ published = {}
    /\ hist = [c \in Clients |-> NewHist(client[c].to_read)]

\* ------------------------------------------------------------- history
Started == Len(log) + Cardinality({t \in Threads : prod[t].pc = "cas"})
ReservedAt(s) == {log[i].val : i \in {j \in 1 .. Len(log) : log[j].seq = s}}
Pushing == {t \in Threads : prod[t].pc # "idle"}
MaxOf(S) == IF S = {} THEN 0 ELSE CHOOSE m \in S : \A k \in S : k <= m

\* a cursor is overrun once the write pointer is more than size - 1 ahead of
\* it; what it returns afterwards is no longer recorded in `out`
Lags(to_read, wp) == wp - to_read > size - 1
Track(h, to_read, wp) ==
    IF h.lagged \/ Lags(to_read, wp)
    THEN [h EXCEPT !.lagged = TRUE, !.out = <<>>]
    ELSE h

\* the producers did something (lvl as in NoPair) that the histories note
Disturb(h, lvl) ==
    [h EXCEPT !.lat.prev = IF @ < lvl THEN lvl ELSE @,
              !.lat.cur = IF @ < lvl THEN lvl ELSE @]
Disturbed(lvl) == [c \in Clients |-> Disturb(hist[c], lvl)]

\* ------------------------------------------------------------ Queue::push
\* a thread that holds a QueueClient pushes through it between its other calls
CanPush(t) ==
    /\ prod[t].pc = "idle"
    /\ t \in Clients => (client[t].live /\ client[t].pc = "idle")

\* lib.rs:335-337, 354-358  the payloads pushed are those of the tests'
\* get_incrementor: 1, 2, 3, ... in the order the pushes are called.  The queue
\* never inspects a payload (T: Copy), so tagging every push with a payload of
\* its own is the general case: it tells any two pushes apart.
get_incrementor == Started + 1

\* lib.rs:113-115  push(data) is called: let mut old = self.write_ptr.load(Relaxed)
PushLoad(t, budget) ==
    /\ CanPush(t)
    /\ Started < budget
    /\ prod' = [prod EXCEPT ![t] = [pc |-> "cas", old |-> write_ptr,
                                    dat |-> get_incrementor, x |-> -1]]
    /\ hist' = Disturbed(2)
    /\ UNCHANGED <<asked, size, write_ptr, data, client, log, published>>

\* a plain store of old + 1 in place of the compare-and-swap
WritePtrCasOk_Blind(old) == TRUE

\* lib.rs:118-120  does compare_exchange_weak(old, new) find `old` in write_ptr
WritePtrCasOk(old) == write_ptr = old

\* lib.rs:116-125  one turn of the CAS loop on write_ptr
PushCAS(t) ==
    /\ prod[t].pc = "cas"
    /\ LET old == prod[t].old
           new == Wrap(old + 1)
       IN  IF WritePtrCasOk(old)
           THEN /\ write_ptr' = new
                /\ prod' = [prod EXCEPT ![t].pc = "claim"]
                /\ log' = Append(log, [seq |-> old, val |-> prod[t].dat])
                /\ hist' = [c \in Clients |->
                              IF client[c].live
                              THEN Track(hist[c], client[c].to_read, new)
                              ELSE hist[c]]
           ELSE /\ prod' = [prod EXCEPT ![t].old = write_ptr]
                /\ UNCHANGED <<write_ptr, log, hist>>
    /\ UNCHANGED <<asked, size, data, client, published>>

\* ------------------------------------------------------------ Cell::write
\* lib.rs:127  the arguments push hands to Cell::write
new_epoch(t) == epoch(prod[t].old)
\* the increment is not subtracted
old_epoch_NotBehind(t) == new_epoch(t)

\* lib.rs:38
old_epoch(t) == Wrap(new_epoch(t) - size)
\* the slot after the one reserved
Slot_OffByOne(t) == modu(prod[t].old + 1)

\* lib.rs:127  self.data[self.modu(old)]
Slot(t) == modu(prod[t].old)

\* a swap in place of the compare-and-swap: the slot is claimed whatever it holds
WriteClaim_Unconditional(t) ==
    /\ prod[t].pc = "claim"
    /\ data' = [data EXCEPT ![Slot(t)].epoch = BitOr(new_epoch(t), SENTINEL_MASK)]
    /\ prod' = [prod EXCEPT ![t].pc = "store", ![t].x = -1]
    /\ hist' = Disturbed(1)
    /\ UNCHANGED <<asked, size, write_ptr, client, log, published>>

\* lib.rs:41-52  one turn of the claim loop: CAS old_epoch -> new_epoch | SENTINEL
WriteClaim(t) ==
    /\ prod[t].pc = "claim"
    /\ LET i == Slot(t)
       IN  IF data[i].epoch = old_epoch(t)
           THEN /\ data' = [data EXCEPT ![i].epoch = BitOr(new_epoch(t), SENTINEL_MASK)]
                /\ prod' = [prod EXCEPT ![t].pc = "store", ![t].x = -1]
                /\ hist' = Disturbed(1)
           ELSE /\ prod' = [prod EXCEPT ![t].x = data[i].epoch]
                /\ UNCHANGED <<data, hist>>
    /\ UNCHANGED <<asked, size, write_ptr, client, log, published>>

\* lib.rs:41 and 51  compare_exchange_weak may fail although the slot holds
\* old_epoch: Err(x) with x the value it holds, and the loop tries again
WriteClaimSpurious(t) ==
    /\ prod[t].pc = "claim"
    /\ data[Slot(t)].epoch = old_epoch(t)
    /\ prod' = [prod EXCEPT ![t].x = data[Slot(t)].epoch]
    /\ UNCHANGED <<asked, size, write_ptr, data, client, log, published, hist>>

\* lib.rs:54  self.data.set(dat)
WriteStore(t) ==
    /\ prod[t].pc = "store"
    /\ data' = [data EXCEPT ![Slot(t)].data = prod[t].dat]
    /\ prod' = [prod EXCEPT ![t].pc = "publish"]
    /\ UNCHANGED <<asked, size, write_ptr, client, log, published, hist>>

\* the publish store adds the increment once more
WritePublish_NextEpoch(t) ==
    /\ prod[t].pc = "publish"
    /\ data' = [data EXCEPT ![Slot(t)].epoch = Wrap(new_epoch(t) + size)]
    /\ published' = published \cup {prod[t].old}
    /\ prod' = [prod EXCEPT ![t] = IdleProd]
    /\ hist' = Disturbed(1)
    /\ UNCHANGED <<asked, size, write_ptr, client, log>>

\* lib.rs:55  self.epoch.store(new_epoch, Release), and push returns
WritePublish(t) ==
    /\ prod[t].pc = "publish"
    /\ data' = [data EXCEPT ![Slot(t)].epoch = new_epoch(t)]
    /\ published' = published \cup {prod[t].old}
    /\ prod' = [prod EXCEPT ![t] = IdleProd]
    /\ hist' = Disturbed(1)
    /\ UNCHANGED <<asked, size, write_ptr, client, log>>

Push(t, budget) ==
    \/ PushLoad(t, budget)
    \/ PushCAS(t)
    \/ WriteClaim(t)
    \/ WriteClaimSpurious(t)
    \/ WriteStore(t)
    \/ WritePublish(t)

\* ------------------------------------------------------------ Queue::read
\* lib.rs:60  Cell::read, a plain load of the payload: it races with the
\* data.set of a writer that holds the sentinel of the slot, and then yields
\* the old payload, the new one, or a torn mix of the two
PayloadLoad(i) ==
    {data[i].data}
        \cup UNION {{prod[t].dat, Torn} :
                      t \in {u \in Threads : prod[u].pc = "store" /\ Slot(u) = i}}

\* the sentinel is masked off before the comparison
EpochMismatch_IgnoresSentinel(e, idx) == Unmasked(e) # epoch(idx)

\* lib.rs:175 and 184  if epoch != self.epoch(idx) { return Err(epoch) }
EpochMismatch(e, idx) == e # epoch(idx)

\* `|| write_in_progress` is left out
NothingToRead_IgnoresSentinel(e, to_read) == Unmasked(e) <= epoch(to_read)

\* lib.rs:242-244  next() hands out nothing: read ahead, or a write in progress
NothingToRead(e, to_read) ==
    LET write_in_progress == WriteInProgress(e)
        ep == Unmasked(e)
    IN  ep <= epoch(to_read) \/ write_in_progress

\* the caller of a QueueClient or Queue method is between two calls
CanCall(c) ==
    /\ client[c].live
    /\ client[c].pc = "idle"
    /\ prod[c].pc = "idle"

\* The operators below take and yield st = [c |-> a client, h |-> its history].
State(c) == [c |-> client[c], h |-> hist[c]]

OfCursor(op) == op \in {"next", "next_blocking", "catch_up"}

\* a call starts.  Of the moment of the call the history keeps, for a call on
\* the cursor, to_read0 and wp0 (to_read and write_ptr), and for a call on the
\* queue done0, the newest push that had returned: the one at idx for a read
\* of idx, the newest of all for a backward walk
Begin(st, op, idx) ==
    [c |-> [st.c EXCEPT !.op = op, !.pc = "e1", !.idx = idx, !.margin = 0,
                        !.rr = Default],
     h |-> [st.h EXCEPT !.ret = NoRet, !.to_read0 = st.c.to_read, !.first = -1,
                        !.wp0 = IF OfCursor(op) THEN write_ptr ELSE 0,
                        !.done0 = IF OfCursor(op) THEN 0
                                  ELSE IF op = "read_latest" THEN MaxOf(published)
                                  ELSE IF idx \in published THEN idx ELSE 0,
                        !.lat = IF op # "read_latest" THEN NoPair
                                ELSE IF st.h.ret.op = "read_latest"
                                THEN [has |-> TRUE, v1 |-> st.h.ret.val,
                                      prev |-> st.h.lat.cur, cur |-> 0]
                                ELSE [NoPair EXCEPT !.cur = 0]]]

\* the call returns: its locals go, the history keeps what it returned
Return(st, kind, val, at) ==
    [c |-> [st.c EXCEPT !.op = "none", !.pc = "idle", !.idx = 0, !.margin = 0,
                        !.rr = Default],
     h |-> [st.h EXCEPT !.ret = [op |-> st.c.op, arg |-> st.c.idx, kind |-> kind,
                                 val |-> val, at |-> at]]]

\* the history keeps the latest call only: the results of the calls that had
\* returned on the other handles are dropped when a call is made
Forget(h) ==
    [h EXCEPT !.ret = NoRet, !.to_read0 = 0, !.wp0 = 0, !.done0 = 0, !.first = -1,
              !.lat = NoPair]

Called(c, st) ==
    /\ client' = [client EXCEPT ![c] = st.c]
    /\ hist' = [d \in Clients |->
                  IF d = c THEN st.h
                  ELSE IF client[d].pc = "idle" THEN Forget(hist[d])
                  ELSE hist[d]]

Stepped(c, st) ==
    /\ client' = [client EXCEPT ![c] = st.c]
    /\ hist' = [hist EXCEPT ![c] = st.h]

\* lib.rs:232-234 and 253-256  `while margin < size` with margin = m; after the
\* loop next() returns None, on which next_blocking (lib.rs:263-270) calls
\* next() again
RECURSIVE LoopTest(_, _)
LoopTest(st, m) ==
    IF m < size
    THEN [st EXCEPT !.c.pc = "e1", !.c.idx = st.c.to_read, !.c.margin = m]
    ELSE IF st.c.op = "next"
    THEN Return(st, "None", Default, 0)
    ELSE IF 1 < size
    THEN LoopTest(Begin(st, "next_blocking", st.c.to_read), 1)
    ELSE [st EXCEPT !.c.pc = "spin", !.c.margin = 1]

\* lib.rs:240-251  next() got Err(e) from read(to_read)
NextOnErr(st, e) ==
    IF NothingToRead(e, st.c.to_read)
    THEN IF st.c.op = "next"
         THEN Return(st, "None", Default, 0)
         ELSE LoopTest(Begin(st, "next_blocking", st.c.to_read), 1)
    ELSE [st EXCEPT !.c.pc = "catch_up"]

\* a read step of the call in progress failed with Err(e)
OnErr(st, e) ==
    CASE st.c.op = "read" -> Return(st, "Err", e, 0)
      [] st.c.op = "try_read_latest" -> Return(st, "None", Default, 0)
      [] st.c.op = "read_latest" ->
            \* lib.rs:150  idx -= 1, which leaves the range of usize at idx = 0
            IF st.c.idx = 0
            THEN [st EXCEPT !.c.pc = "underflow", !.c.idx = Wrap(st.c.idx - 1)]
            ELSE [st EXCEPT !.c.pc = "e1", !.c.idx = st.c.idx - 1]
      [] st.c.op = "read_latest_blocking" -> [st EXCEPT !.c.pc = "e1"]
      [] st.c.op \in {"next", "next_blocking"} -> NextOnErr(st, e)

\* `self.to_read += 1` is left out
NextOnOk_NoAdvance(st, v, wp) ==
    LET r == Return(st, IF st.c.op = "next" THEN "Some" ELSE "Val", v, st.c.idx)
    IN  [c |-> r.c,
         h |-> Track([r.h EXCEPT !.out = Append(@, v), !.cw = 0, !.cm = 0],
                     st.c.to_read, wp)]

\* lib.rs:236-239  next() got Ok(v): self.to_read += 1; return Some(data)
NextOnOk(st, v, wp) ==
    LET to == Wrap(st.c.to_read + 1)
        r == Return(st, IF st.c.op = "next" THEN "Some" ELSE "Val", v, st.c.idx)
    IN  [c |-> [r.c EXCEPT !.to_read = to],
         h |-> Track([r.h EXCEPT !.out = Append(@, v), !.cw = 0, !.cm = 0], to, wp)]

\* the read of the call in progress returned Ok(v)
OnOk(st, v, wp) ==
    CASE st.c.op = "read" -> Return(st, "Ok", v, st.c.idx)
      [] st.c.op = "try_read_latest" -> Return(st, "Some", v, st.c.idx)
      [] st.c.op \in {"read_latest", "read_latest_blocking"} ->
            Return(st, "Val", v, st.c.idx)
      [] st.c.op \in {"next", "next_blocking"} -> NextOnOk(st, v, wp)

\* lib.rs:174-178  the first epoch load of read(idx)
ReadEpoch1(c) ==
    /\ client[c].pc = "e1"
    /\ LET st == State(c)
           e == data[modu(st.c.idx)].epoch
           seen == [st EXCEPT !.h.first = IF @ = -1 /\ OfCursor(st.c.op) THEN e ELSE @]
       IN  Stepped(c, IF EpochMismatch(e, st.c.idx)
                      THEN OnErr(seen, e)
                      ELSE [seen EXCEPT !.c.pc = "data"])
    /\ UNCHANGED <<asked, size, write_ptr, data, prod, log, published>>

\* lib.rs:179  let rr = cell.read()
ReadData(c) ==
    /\ client[c].pc = "data"
    /\ \E v \in PayloadLoad(modu(client[c].idx)) :
          client' = [client EXCEPT ![c].rr = v, ![c].pc = "e2"]
    /\ UNCHANGED <<asked, size, write_ptr, data, prod, log, published, hist>>

\* lib.rs:183-187  the second epoch load of read(idx)
ReadEpoch2(c) ==
    /\ client[c].pc = "e2"
    /\ LET st == State(c)
           e == data[modu(st.c.idx)].epoch
       IN  Stepped(c, IF EpochMismatch(e, st.c.idx)
                      THEN OnErr(st, e)
                      ELSE OnOk(st, st.c.rr, write_ptr))
    /\ UNCHANGED <<asked, size, write_ptr, data, prod, log, published>>

\* lib.rs:172  Queue::read(idx) is called
ReadCall(c, s) ==
    /\ CanCall(c)
    /\ Called(c, Begin(State(c), "read", s))
    /\ UNCHANGED <<asked, size, write_ptr, data, prod, log, published>>

\* lib.rs:134-135  try_read_latest: idx = write_ptr.load(Acquire) - 1
TryReadLatestCall(c) ==
    /\ CanCall(c)
    /\ Called(c, Begin(State(c), "try_read_latest", Wrap(write_ptr - 1)))
    /\ UNCHANGED <<asked, size, write_ptr, data, prod, log, published>>

\* the walk starts one sequence too low
ReadLatestCall_FromOlder(c) ==
    /\ CanCall(c)
    /\ Called(c, Begin(State(c), "read_latest", Wrap(write_ptr - 2)))
    /\ UNCHANGED <<asked, size, write_ptr, data, prod, log, published>>

\* lib.rs:142-143 read_latest, which QueueClient::latest (lib.rs:274) delegates to
ReadLatestCall(c) ==
    /\ CanCall(c)
    /\ Called(c, Begin(State(c), "read_latest", Wrap(write_ptr - 1)))
    /\ UNCHANGED <<asked, size, write_ptr, data, prod, log, published>>

\* lib.rs:158-159  read_latest_blocking
ReadLatestBlockingCall(c) ==
    /\ CanCall(c)
    /\ Called(c, Begin(State(c), "read_latest_blocking", Wrap(write_ptr - 1)))
    /\ UNCHANGED <<asked, size, write_ptr, data, prod, log, published>>

\* ------------------------------------------------------------ QueueClient
\* the size is not subtracted
catch_up_PastWritePtr(st, margin) ==
    LET to == Wrap(next_write_ptr + margin)
    IN  [c |-> [st.c EXCEPT !.to_read = to],
         h |-> Track([st.h EXCEPT !.cw = next_write_ptr, !.cm = margin],
                     to, write_ptr)]

\* the margin is not added
catch_up_NoMargin(st, margin) ==
    LET to == Wrap(next_write_ptr - size)
    IN  [c |-> [st.c EXCEPT !.to_read = to],
         h |-> Track([st.h EXCEPT !.cw = next_write_ptr, !.cm = margin],
                     to, write_ptr)]

\* lib.rs:215  to_read = next_write_ptr() - size() + margin
catch_up(st, margin) ==
    LET to == Wrap(Wrap(next_write_ptr - size) + margin)
    IN  [c |-> [st.c EXCEPT !.to_read = to],
         h |-> Track([st.h EXCEPT !.cw = next_write_ptr, !.cm = margin],
                     to, write_ptr)]

\* the history of a cursor starts anew where its owner resets the read stream
Restart(st) ==
    [st EXCEPT !.h.start = st.c.to_read, !.h.out = <<>>,
               !.h.lagged = Lags(st.c.to_read, write_ptr)]

\* lib.rs:230-234  next() is called
NextCall(c) ==
    /\ CanCall(c)
    /\ Called(c, LoopTest(Begin(State(c), "next", client[c].to_read), 1))
    /\ UNCHANGED <<asked, size, write_ptr, data, prod, log, published>>

\* lib.rs:262-264  next_blocking() is called
NextBlockingCall(c) ==
    /\ CanCall(c)
    /\ Called(c, LoopTest(Begin(State(c), "next_blocking", client[c].to_read), 1))
    /\ UNCHANGED <<asked, size, write_ptr, data, prod, log, published>>

\* lib.rs:249-253  inside next(): self.catch_up(margin); margin *= 2
NextCatchUp(c) ==
    /\ client[c].pc = "catch_up"
    /\ Stepped(c, LoopTest(catch_up(State(c), client[c].margin),
                           Wrap(client[c].margin * 2)))
    /\ UNCHANGED <<asked, size, write_ptr, data, prod, log, published>>

\* lib.rs:263-270 with 232-234 and 256  next_blocking() on a ring of size 1:
\* `while margin < size` is never entered, next() returns None having loaded
\* nothing ("spin" to "again"), and next_blocking calls it again ("again" to
\* "spin")
NextBlockingSpin(c) ==
    /\ client[c].pc \in {"spin", "again"}
    /\ client' = [client EXCEPT ![c].pc = IF @ = "spin" THEN "again" ELSE "spin"]
    /\ UNCHANGED <<asked, size, write_ptr, data, prod, log, published, hist>>

\* lib.rs:214-216  catch_up(margin) called by the owner of the cursor
CatchUpCall(c, m) ==
    /\ CanCall(c)
    /\ Called(c, Return(Restart(catch_up([Begin(State(c), "catch_up", m)
                                             EXCEPT !.c.margin = m], m)),
                        "Unit", Default, 0))
    /\ UNCHANGED <<asked, size, write_ptr, data, prod, log, published>>

\* the new handle starts where a handle of new_queue starts
Clone_FromStart(c, d) ==
    /\ CanCall(c)
    /\ ~client[d].live
    /\ client' = [client EXCEPT ![d] = NewClient(TRUE, size)]
    /\ hist' = [hist EXCEPT ![d] = Track(NewHist(size), size, write_ptr)]
    /\ UNCHANGED <<asked, size, write_ptr, data, prod, log, published>>

\* lib.rs:196  #[derive(Clone)]: the new handle d shares the queue of c
Clone(c, d) ==
    /\ CanCall(c)
    /\ ~client[d].live
    /\ client' = [client EXCEPT ![d] = NewClient(TRUE, client[c].to_read)]
    /\ hist' = [hist EXCEPT ![d] = Track(NewHist(client[c].to_read),
                                         client[c].to_read, write_ptr)]
    /\ UNCHANGED <<asked, size, write_ptr, data, prod, log, published>>

QueueCall(c) ==
    \/ \E s \in 0 .. write_ptr : ReadCall(c, s)
    \/ TryReadLatestCall(c)
    \/ ReadLatestCall(c)
    \/ ReadLatestBlockingCall(c)

ReadStep(c) ==
    \/ ReadEpoch1(c)
    \/ ReadData(c)
    \/ ReadEpoch2(c)

CursorCall(c) ==
    \/ NextCall(c)
    \/ NextBlockingCall(c)
    \/ \E m \in 1 .. (size - 1) : CatchUpCall(c, m)
    \/ \E d \in Clients : Clone(c, d)

\* ------------------------------------------------------- specifications
\* producers alone: every interleaving of the steps of concurrent pushes
InitPush == InitUpTo(MaxRingSize)
NextPush == \E t \in Threads : Push(t, MaxRingPushes)
SpecPush == InitPush /\ [][NextPush]_vars

\* producers against one thread that calls the read methods of Queue
InitRead == InitUpTo(MaxRingSize)
NextRead ==
    \/ \E t \in Producers : Push(t, MaxRingPushes)
    \/ QueueCall(1)
    \/ ReadStep(1)
SpecRead == InitRead /\ [][NextRead]_vars

\* producers against the cursor of the first QueueClient
InitCursor == InitUpTo(MaxRingSize)
NextCursor ==
    \/ \E t \in Producers : Push(t, MaxRingPushes)
    \/ CursorCall(1)
    \/ ReadStep(1)
    \/ NextCatchUp(1)
    \/ NextBlockingSpin(1)
SpecCursor == InitCursor /\ [][NextCursor]_vars

\* the construction alone: new_queue(asked) on every size up to MaxAsked and
\* on the sizes around every power of two of the word, up to the largest one
PowersOfTwo == {2 ^ e : e \in 0 .. (WordBits - 1)}
AskedSizes ==
    (1 .. MaxAsked)
        \cup {n \in UNION {{p - 1, p, p + 1} : p \in PowersOfTwo} :
                n >= 1 /\ n <= SENTINEL_MASK}
InitRound ==
    /\ asked \in AskedSizes
    /\ size = 0 /\ write_ptr = 0 /\ data = <<>>
    /\ client = [c \in Clients |-> NewClient(FALSE, 0)]
    /\ prod = [t \in Threads |-> IdleProd]
    /\ log = <<>>
    /\ published = {}
    /\ hist = [c \in Clients |-> NewHist(0)]
\* lib.rs:203-210  QueueClient::new_queue(asked) returns
NewQueueCall ==
    /\ size = 0
    /\ asked > 0
    /\ size' = Queue_new(asked).size
    /\ data' = Queue_new(asked).data
    /\ write_ptr' = Queue_new(asked).write_ptr
    /\ client' = FirstClient(Queue_new(asked))
    /\ hist' = [c \in Clients |-> NewHist(client'[c].to_read)]
    /\ UNCHANGED <<asked, prod, log, published>>
NextRound == NewQueueCall
SpecRound == InitRound /\ [][NextRound]_vars

\* the steps of a push after its call; a compare_exchange_weak that is tried
\* again and again does not fail spuriously for ever
PushRun(t) == PushCAS(t) \/ WriteClaim(t) \/ WriteStore(t) \/ WritePublish(t)

\* producers alone, each one scheduled again and again while it is in a push
SpecPushFair ==
    /\ InitPush /\ [][NextPush]_vars
    /\ \A t \in Threads : WF_vars(PushRun(t))

\* producers against a cursor that is read with next_blocking(), every thread
\* being scheduled again and again
InitBlock == InitUpTo(MaxRingSize)
NextBlock ==
    \/ \E t \in Producers : Push(t, MaxRingPushes)
    \/ NextBlockingCall(1)
    \/ ReadStep(1)
    \/ NextCatchUp(1)
    \/ NextBlockingSpin(1)
SpecBlock ==
    /\ InitBlock /\ [][NextBlock]_vars
    /\ \A t \in Producers : WF_vars(PushRun(t))
    /\ WF_vars(ReadStep(1) \/ NextCatchUp(1) \/ NextBlockingSpin(1))

\* one producer against a cursor that is read with next() and reset with
\* catch_up(margin), on rings large enough for every margin up to MaxSize - 1
InitHead == InitUpTo(MaxSize)
NextHead ==
    \/ \E t \in Producers : t = NumClients + 1 /\ Push(t, MaxPushes)
    \/ NextCall(1)
    \/ \E m \in 1 .. (size - 1) : CatchUpCall(1, m)
    \/ ReadStep(1)
    \/ NextCatchUp(1)
SpecHead == InitHead /\ [][NextHead]_vars

\* one producer against a cursor that is moved by next() and next_blocking()
\* only, on rings of every size up to MaxSize
InitNext == InitUpTo(MaxSize)
NextNext ==
    \/ \E t \in Producers : t = NumClients + 1 /\ Push(t, MaxLapPushes)
    \/ NextCall(1)
    \/ NextBlockingCall(1)
    \/ ReadStep(1)
    \/ NextCatchUp(1)
    \/ NextBlockingSpin(1)
SpecNext == InitNext /\ [][NextNext]_vars

\* one thread, as in tests::single_threaded_single_client: it pushes through
\* its QueueClient and reads from it, and each call returns before the next
Quiet ==
    /\ \A t \in Threads : prod[t].pc = "idle"
    /\ \A c \in Clients : client[c].pc = "idle"
InitSeq == InitUpTo(MaxSize)
NextSeq ==
    \/ Push(1, MaxPushes)
    \/ Quiet /\ CursorCall(1)
    \/ ReadStep(1)
    \/ NextCatchUp(1)
    \/ NextBlockingSpin(1)
SpecSeq == InitSeq /\ [][NextSeq]_vars

\* the threads of two QueueClients, as in tests::single_threaded_multi_client
\* but interleaved: each pushes through its own handle and reads from it
InitTwo == InitUpTo(MaxRingSize)
NextTwo ==
    \/ \E c \in Clients : Push(c, MaxRingPushes)
    \/ \E c \in Clients : CursorCall(c)
    \/ \E c \in Clients : ReadStep(c)
    \/ \E c \in Clients : NextCatchUp(c)
    \/ \E c \in Clients : NextBlockingSpin(c)
SpecTwo == InitTwo /\ [][NextTwo]_vars

\* every thread and every method
Init == InitUpTo(MaxRingSize)
Next ==
    \/ \E t \in Threads : Push(t, MaxRingPushes)
    \/ \E c \in Clients : QueueCall(c)
    \/ \E c \in Clients : CursorCall(c)
    \/ \E c \in Clients : ReadStep(c)
    \/ \E c \in Clients : NextCatchUp(c)
    \/ \E c \in Clients : NextBlockingSpin(c)
Spec == Init /\ [][Next]_vars

\* ---------------------------------------------------------------- claims
\* The claims speak of sequences and epoch words in the words of the
\* documentation; these are stated apart from the operators that model the code.
SeqIndex(s) == s % size
SeqEpoch(s) == s - (s % size)
SentinelSet(e) == e >= SENTINEL_MASK
EpochOf(e) == IF e >= SENTINEL_MASK THEN e - SENTINEL_MASK ELSE e
InFlight == {t \in Threads : prod[t].pc \in {"claim", "store", "publish"}}

\* C1: monotonic unique reservation.  In every interleaving of concurrent
\* pushes write_ptr never decreases, and the sequences won by the successful
\* CAS on write_ptr are exactly size, size + 1, size + 2, ... in that order:
\* no gap, and no sequence won by two pushes.
C1_MonotonicReservation ==
    /\ [][write_ptr' >= write_ptr]_vars
    /\ [](/\ write_ptr = size + Len(log)
          /\ \A i \in 1 .. Len(log) : log[i].seq = size + i - 1)

\* two reservations won, both writes still in flight, and a third thread
\* about to lose the CAS with a stale `old`
C1_Witness ==
    /\ Len(log) >= 2
    /\ Cardinality(InFlight) >= 2
    /\ \E t \in Threads : prod[t].pc = "cas" /\ prod[t].old < write_ptr

\* C2: no phantom data.  For every sequence s and every interleaving of pushes
\* with the three steps of read, read(s) = Ok(v) only if a push of v reserved
\* exactly s: never a default payload, never another generation of the slot,
\* never a payload loaded while a writer held the sentinel.
C2_NoPhantomData ==
    \A c \in Clients :
        LET r == hist[c].ret
        IN  (r.op = "read" /\ r.kind = "Ok") => r.val \in ReservedAt(r.arg)

\* C4: a published write stays readable.  A read(s) called after the push that
\* reserved s has returned yields Ok of the payload of that push, as long as
\* no producer has reserved s + size, the next write to the same slot.
C4_PublishedStaysReadable ==
    \A c \in Clients :
        LET r == hist[c].ret
            s == r.arg
        IN  (/\ r.op = "read"
             /\ s \in published
             /\ hist[c].done0 = s
             /\ write_ptr <= s + size)
            => (r.kind = "Ok" /\ r.val \in ReservedAt(s))

\* such a read returned Ok with every other slot of the ring reserved since,
\* one of these writes still in flight
C4_Witness ==
    \E c \in Clients :
        LET r == hist[c].ret
            s == r.arg
        IN  /\ r.op = "read" /\ r.kind = "Ok"
            /\ s \in published /\ hist[c].done0 = s
            /\ size >= 2 /\ write_ptr = s + size
            /\ InFlight # {}

\* C5: latest returns the newest write.  If the push that reserved s had returned
\* when read_latest() / latest() was called and no producer has reserved
\* s + size, the walk stays at or above s and returns the payload of the push
\* that reserved the sequence it stopped at, which is s or a later one; it is
\* s itself when no later sequence was reserved.
C5_LatestReturnsNewest ==
    \A c \in Clients :
        LET r == hist[c].ret
            s == hist[c].done0
        IN  /\ (r.op = "read_latest" /\ s >= size /\ write_ptr <= s + size)
                => /\ r.kind = "Val"
                   /\ r.at >= s
                   /\ r.val \in ReservedAt(r.at)
                   /\ write_ptr = s + 1 => r.at = s
            /\ (client[c].op = "read_latest" /\ s >= size /\ write_ptr <= s + size)
                => (client[c].pc # "underflow" /\ client[c].idx >= s)

\* the walk passed a later reservation that had not published and returned s
C5_Witness ==
    \E c \in Clients :
        LET r == hist[c].ret
            s == hist[c].done0
        IN  /\ r.op = "read_latest" /\ r.kind = "Val"
            /\ s >= size /\ write_ptr <= s + size
            /\ r.at = s /\ write_ptr > s + 1

\* C9: on a fresh ring on which no push has been started try_read_latest()
\* returns None; once a single push(v) has returned, and no other push was
\* started, it returns Some(v).
C9_TryReadLatest ==
    \A c \in Clients :
        LET r == hist[c].ret
        IN  r.op = "try_read_latest" =>
              /\ Started = 0 => r.kind = "None"
              /\ (Started = 1 /\ published = {size} /\ hist[c].done0 = size)
                    => (r.kind = "Some" /\ r.val \in ReservedAt(size))

\* C10: read_latest() / latest() called on a ring on which no write has ever
\* completed does not return a value as long as no push completes.
C10_LatestBlocksOnEmptyRing ==
    \A c \in Clients :
        ~(hist[c].ret.op = "read_latest" /\ published = {})

\* what a cursor that was never overrun has returned: the payloads reserved at
\* start, start + 1, ... up to to_read - 1, each once and in this order
InOrder(c) ==
    /\ Len(hist[c].out) = client[c].to_read - hist[c].start
    /\ \A i \in 1 .. Len(hist[c].out) :
          hist[c].out[i] \in ReservedAt(hist[c].start + i - 1)

\* C3: cursor ordering under no overrun.  While write_ptr has never been more
\* than size - 1 ahead of to_read, the values that next() / next_blocking()
\* have returned are the pushed values in reservation order from the sequence
\* the cursor started at (size for the cursor of new_queue), with no gap and no
\* duplicate, in every interleaving with the producers.
C3_CursorOrdering ==
    \A c \in Clients :
        (client[c].live /\ ~hist[c].lagged /\ hist[c].start >= size) => InOrder(c)

\* a cursor from new_queue has returned two values, never overrun, while a
\* producer is in the middle of a write
C3_Witness ==
    \E c \in Clients :
        /\ client[c].live /\ ~hist[c].lagged /\ hist[c].start = size
        /\ Len(hist[c].out) >= 2
        /\ InFlight # {}

\* C6: overrun fast-forward.  On a ring of size >= 2 with no push in progress,
\* the first next() of a lapped cursor (write_ptr > to_read + size) returns
\* Some of the payload reserved at write_ptr - size + 1 and leaves to_read at
\* write_ptr - size + 2.
C6_OverrunFastForward ==
    \A c \in Clients :
        LET r == hist[c].ret
            W == hist[c].wp0
        IN  (/\ r.op = "next"
             /\ size >= 2
             /\ hist[c].to_read0 >= size
             /\ W > hist[c].to_read0 + size
             /\ Pushing = {} /\ write_ptr = W)
            => /\ r.kind = "Some"
               /\ r.val \in ReservedAt(W - size + 1)
               /\ client[c].to_read = W - size + 2

\* the first epoch load of the latest next() found nothing to hand out: the
\* sentinel set, or an epoch below the one of to_read
EmptyAtFirstLoad(h) ==
    /\ h.first # -1
    /\ h.first # SeqEpoch(h.to_read0)
    /\ SentinelSet(h.first) \/ EpochOf(h.first) <= SeqEpoch(h.to_read0)

\* C7: an empty read is a no-op.  When the cursor has consumed every reserved
\* sequence (to_read = write_ptr), or the slot of to_read is unwritten or
\* mid-write when next() loads its epoch, next() returns None at once and
\* leaves to_read unchanged; no step of a cursor changes the ring; and a next()
\* that then succeeds at this to_read returns the payload reserved there.
C7_EmptyReadIsNoOp ==
    /\ [](\A c \in Clients :
            LET r == hist[c].ret
                h == hist[c]
            IN  /\ (/\ r.op = "next"
                    /\ \/ EmptyAtFirstLoad(h)
                       \/ h.wp0 = h.to_read0 /\ write_ptr = h.wp0)
                   => (r.kind = "None" /\ client[c].to_read = h.to_read0)
                /\ client[c].op = "next" => ~EmptyAtFirstLoad(h)
                /\ (r.op = "next" /\ r.kind = "Some" /\ r.at = h.to_read0
                        /\ h.to_read0 >= size)
                   => /\ r.val \in ReservedAt(h.to_read0)
                      /\ client[c].to_read = h.to_read0 + 1)
    /\ [][(\E c \in Clients : client'[c] # client[c])
            => UNCHANGED <<asked, size, write_ptr, data>>]_vars

\* next() returned None on a slot whose writer held the sentinel
C7_Witness ==
    \E c \in Clients :
        /\ hist[c].ret.op = "next" /\ hist[c].ret.kind = "None"
        /\ EmptyAtFirstLoad(hist[c]) /\ SentinelSet(hist[c].first)
        /\ client[c].to_read = hist[c].to_read0

\* C8: cursor independence.  A clone starts at the to_read of its original;
\* afterwards no step of next(), next_blocking() or catch_up() on one cursor
\* changes the to_read of another cursor, nor write_ptr, nor a slot; and each
\* cursor that is never overrun receives the complete stream in order,
\* through whichever cursor the pushes are issued.
C8_CursorIndependence ==
    /\ [](\A c \in Clients :
            (client[c].live /\ ~hist[c].lagged /\ hist[c].start >= size)
                => InOrder(c))
    /\ [][\A c \in Clients :
            /\ (~client[c].live /\ client'[c].live)
                  => \E o \in Clients \ {c} :
                        /\ client[o].live
                        /\ client'[c].to_read = client[o].to_read
                        /\ client'[o] = client[o]
            /\ client'[c] # client[c]
                  => /\ \A d \in Clients \ {c} : client'[d] = client[d]
                     /\ UNCHANGED <<asked, size, write_ptr, data>>]_vars

\* two cursors, the second cloned after the first had read, have each returned
\* the whole stream so far while a push issued through the clone is in flight
C8_Witness ==
    /\ \A c \in Clients :
          /\ client[c].live /\ ~hist[c].lagged
          /\ client[c].to_read = size + 2
    /\ hist[1].start = size /\ hist[2].start > size
    /\ Len(hist[1].out) = 2 /\ Len(hist[2].out) >= 1
    /\ prod[2].pc \in {"claim", "store", "publish"}

\* C11: idempotent latest.  Two consecutive latest() calls on a cursor, with no
\* push called between the start of the first and the return of the second,
\* return the same value, also when pushes reserved earlier are unpublished
\* or publish between the two calls.  (Stated for a first call that returned
\* a pushed payload.)
C11_IdempotentLatest ==
    \A c \in Clients :
        LET h == hist[c]
        IN  (/\ h.ret.op = "read_latest" /\ h.lat.has /\ h.lat.prev <= 1
             /\ \E i \in 1 .. Len(log) : log[i].val = h.lat.v1)
                => h.ret.val = h.lat.v1

\* C11 as amended: ... return the same value, also when pushes reserved
\* earlier are unpublished, provided none of them claims or publishes a slot
\* between the start of the first call and the return of the second.
C11_IdempotentLatestWhileSlotsRest ==
    \A c \in Clients :
        LET h == hist[c]
        IN  (h.ret.op = "read_latest" /\ h.lat.has /\ h.lat.prev = 0)
                => h.ret.val = h.lat.v1

\* both calls walked back past a reservation whose writer held the sentinel
\* all the while, and returned the payload of an older push
C11_Witness ==
    \E c \in Clients :
        LET h == hist[c]
        IN  /\ h.ret.op = "read_latest" /\ h.lat.has /\ h.lat.prev = 0
            /\ h.ret.at >= size /\ h.ret.at < write_ptr - 1
            /\ h.ret.val \in ReservedAt(h.ret.at)
            /\ \E t \in Threads : prod[t].pc \in {"store", "publish"}

\* C12: a blocking read eventually delivers.  On a ring of any size >= 1, once
\* a completed write exists at a sequence >= to_read, a next_blocking() in
\* progress eventually returns, the producers finishing their pushes and every
\* thread being scheduled fairly.
C12_BlockingReadDelivers ==
    \A c \in Clients :
        (client[c].op = "next_blocking"
            /\ \E s \in published : s >= client[c].to_read)
        ~> (client[c].op # "next_blocking")

\* C13: writer assertion validity.  Whenever the claim CAS of Cell::write for
\* the target epoch E has failed, the epoch word it observed, sentinel masked
\* off, is <= E - size; and the slot a writer waits on never holds an epoch at
\* or beyond E, so the debug assertion of Cell::write never fires and no writer
\* waits on a slot that has moved past it.
C13_WriterAssertion ==
    \A t \in Threads :
        prod[t].pc = "claim" =>
            LET E == SeqEpoch(prod[t].old)
            IN  /\ prod[t].x # -1 => EpochOf(prod[t].x) <= E - size
                /\ EpochOf(data[SeqIndex(prod[t].old)].epoch) <= E - size

\* a writer that wrapped onto a slot has seen the sentinel of the writer one
\* generation before it, and another has seen the slot a generation further back
C13_Witness ==
    /\ \E t \in Threads :
          /\ prod[t].pc = "claim" /\ prod[t].x # -1
          /\ SentinelSet(prod[t].x)
          /\ EpochOf(prod[t].x) = SeqEpoch(prod[t].old) - size
    /\ \E t \in Threads :
          /\ prod[t].pc = "claim" /\ prod[t].x # -1
          /\ EpochOf(prod[t].x) < SeqEpoch(prod[t].old) - size

\* C14: power-of-two rounding.  For every n from 1 to the largest power of two
\* of the word, the size of the ring of new_queue(n) is the smallest power of
\* two >= n (n itself when n is one), and the initial write_ptr and the
\* to_read of the first cursor both equal it.
C14_PowerOfTwoRounding ==
    (size # 0 /\ asked >= 1 /\ asked <= SENTINEL_MASK) =>
        /\ size \in PowersOfTwo
        /\ size >= asked
        /\ \A p \in PowersOfTwo : p >= asked => size <= p
        /\ write_ptr = size
        /\ client[1].live /\ client[1].to_read = size

\* a ring was built for a size that is a power of two, and one for a size
\* that had to be rounded up
C14_Witness ==
    /\ size # 0 /\ write_ptr = size /\ client[1].to_read = size
    /\ \/ asked = size /\ asked >= 8
       \/ asked > 8 /\ asked < size /\ size < 2 * asked - 2

\* C15: slot epoch protocol.  The epoch word of every slot is 0, or a positive
\* multiple E of size (ready), or such an E with the sentinel bit set
\* (writing).  It changes only from E to (E + size) with the sentinel, by a
\* claim CAS, and from (E + size) with the sentinel to E + size, by the publish
\* store: the epoch, sentinel masked, never decreases and advances by exactly
\* size per write.
C15_SlotEpochProtocol ==
    /\ [](\A i \in DOMAIN data :
            LET w == data[i].epoch
            IN  /\ EpochOf(w) % size = 0
                /\ SentinelSet(w) => EpochOf(w) > 0)
    /\ [][\A i \in DOMAIN data :
            LET w == data[i].epoch
                v == data'[i].epoch
            IN  v # w =>
                  \/ ~SentinelSet(w) /\ SentinelSet(v) /\ EpochOf(v) = w + size
                  \/ SentinelSet(w) /\ ~SentinelSet(v) /\ v = EpochOf(w)]_vars

\* a slot of a ring of size 2 is claimed for its second generation
C15_Witness ==
    /\ size = 2
    /\ \E i \in DOMAIN data :
          SentinelSet(data[i].epoch) /\ EpochOf(data[i].epoch) = 2 * size

\* the producers between their successful claim CAS and their publish store
\* on slot i
Holders(i) ==
    {t \in Threads : prod[t].pc \in {"store", "publish"} /\ SeqIndex(prod[t].old) = i}

\* C16: exclusive slot ownership.  At most one producer is between its
\* successful claim CAS and its publish store on a slot; the sentinel bit of
\* the slot is set exactly when there is one; the payload of a slot is stored
\* only by that producer; and producers that wrapped onto the same slot
\* (sequences s and s + size) write it in reservation order.
C16_ExclusiveSlotOwnership ==
    /\ [](/\ \A i \in DOMAIN data :
                /\ Cardinality(Holders(i)) <= 1
                /\ SentinelSet(data[i].epoch) <=> Holders(i) # {}
          /\ \A t, u \in InFlight :
                (/\ SeqIndex(prod[t].old) = SeqIndex(prod[u].old)
                 /\ prod[t].old < prod[u].old)
                    => prod[u].pc = "claim"
          /\ \A j, k \in 1 .. Len(log) :
                (/\ k < j
                 /\ SeqIndex(log[k].seq) = SeqIndex(log[j].seq)
                 /\ log[j].seq \in published)
                    => log[k].seq \in published)
    /\ [][\A i \in DOMAIN data :
            data'[i].data # data[i].data =>
                \E t \in Holders(i) :
                    /\ prod[t].pc = "store" /\ prod'[t].pc = "publish"
                    /\ data'[i].data = prod[t].dat]_vars

\* the writer of s holds the sentinel of its slot while the writer of
\* s + size, which has seen it, waits in its claim loop
C16_Witness ==
    \E t, u \in Threads :
        /\ prod[t].pc \in {"store", "publish"}
        /\ prod[u].pc = "claim"
        /\ prod[u].old = prod[t].old + size
        /\ prod[u].x # -1 /\ SentinelSet(prod[u].x)

\* C17: push terminates under fairness.  Every producer in a push being
\* scheduled again and again, every push that was called returns; a writer in
\* its claim loop whose slot holds the epoch it waits for (the writer one
\* generation before has published) leaves the loop; and while a push is in
\* progress some producer can take a step that changes the state: there is no
\* deadlock.
C17_PushTerminates ==
    /\ \A t \in Threads : (prod[t].pc # "idle") ~> (prod[t].pc = "idle")
    /\ \A t \in Threads :
          (/\ prod[t].pc = "claim"
           /\ data[SeqIndex(prod[t].old)].epoch = SeqEpoch(prod[t].old) - size)
          ~> (prod[t].pc # "claim")
    /\ [](Pushing # {} => \E t \in Pushing : ENABLED <<PushRun(t)>>_vars)

\* every push has returned, one of them after it had to wait for the writer
\* one generation before it on the same slot
C17_Witness ==
    /\ Pushing = {}
    /\ Len(log) >= 3
    /\ \A j \in 1 .. Len(log) : log[j].seq \in published
    /\ \E s \in published : s + size \in published

\* C18: catch-up head-room.  catch_up(margin) with 1 <= margin < size sets
\* to_read to W - size + margin, W being the write_ptr it loaded; and as long
\* as at most margin further sequences have been reserved (write_ptr <=
\* W + margin) the slot of to_read holds no epoch, sentinel masked, above the
\* epoch of to_read, so that a read(to_read) reports no overrun and next()
\* does not catch up again.
C18_CatchUpHeadRoom ==
    \A c \in Clients :
        LET h == hist[c]
            to == client[c].to_read
        IN  (client[c].live /\ h.cw # 0) =>
              /\ h.cm >= 1 /\ h.cm < size
              /\ to = h.cw - size + h.cm
              /\ write_ptr <= h.cw + h.cm =>
                    /\ EpochOf(data[SeqIndex(to)].epoch) <= SeqEpoch(to)
                    /\ client[c].pc # "catch_up"

\* after a catch_up with a margin of 2 or more the producer has reserved
\* exactly margin further sequences, and the read of to_read is under way
C18_Witness ==
    \E c \in Clients :
        LET h == hist[c]
        IN  /\ client[c].live /\ h.cw # 0 /\ h.cm >= 2
            /\ h.cw > size
            /\ write_ptr = h.cw + h.cm
            /\ client[c].op = "next" /\ client[c].pc = "e2"

\* C19: cursor position bound.  For a cursor that is moved by next() and
\* next_blocking() only, size <= to_read <= write_ptr in every state, and next()
\* calls catch_up only when the write at to_read has been overwritten
\* (write_ptr > to_read + size): the cursor is never put past the write pointer
\* nor back into generation 0.
C19_CursorPositionBound ==
    \A c \in Clients :
        client[c].live =>
            /\ size <= client[c].to_read
            /\ client[c].to_read <= write_ptr
            /\ client[c].pc = "catch_up" => write_ptr > client[c].to_read + size

\* next() has caught up with a margin of 1 and the producer has gone on since
C19_Witness ==
    \E c \in Clients :
        /\ client[c].live /\ hist[c].cw # 0
        /\ size >= 2
        /\ client[c].to_read = hist[c].cw - size + 1
        /\ write_ptr > hist[c].cw

\* C20: lossy but never backwards.  In every interleaving, repeated overrun
\* and catch-up included, the to_read of a cursor read with next() /
\* next_blocking() never decreases; a value returned as Some is the payload
\* reserved at a sequence that is not below the to_read of the start of the
\* call and leaves to_read just above that sequence.  The sequences of the
\* values returned are thus strictly increasing: overrun may skip values,
\* but none is delivered twice or out of reservation order.
C20_NeverBackwards ==
    /\ [][\A c \in Clients :
            client[c].live => client'[c].to_read >= client[c].to_read]_vars
    /\ [](\A c \in Clients :
            LET r == hist[c].ret
            IN  (r.op \in {"next", "next_blocking"} /\ r.kind \in {"Some", "Val"})
                  => /\ r.at >= hist[c].to_read0
                     /\ r.val \in ReservedAt(r.at)
                     /\ client[c].to_read = r.at + 1)

\* a next() that was overrun caught up and returned a value from two or more
\* sequences above where it started, on a cursor that had moved before
C20_Witness ==
    \E c \in Clients :
        LET r == hist[c].ret
        IN  /\ r.op = "next" /\ r.kind = "Some"
            /\ r.at >= hist[c].to_read0 + 2
            /\ hist[c].to_read0 > size

\* C21: bounded backward walk of read_latest.  When a push had returned before
\* read_latest() was called, then in every interleaving with concurrent pushes
\* the sequence that the walk probes stays at or above size and below the write
\* pointer, never in generation 0 and never decremented below zero, and the
\* call returns the payload of a push reserved at such a sequence.
C21_BoundedBackwardWalk ==
    \A c \in Clients :
        LET r == hist[c].ret
        IN  /\ (client[c].op = "read_latest" /\ hist[c].done0 >= size)
                => /\ client[c].pc # "underflow"
                   /\ client[c].idx >= size
                   /\ client[c].idx <= write_ptr - 1
            /\ (r.op = "read_latest" /\ hist[c].done0 >= size)
                => /\ r.kind = "Val"
                   /\ r.at >= size /\ r.at <= write_ptr - 1
                   /\ r.val \in ReservedAt(r.at)

====
